---- MODULE Spec2Model ----
(***************************************************************************)
(* Model of the App component of src/App.tsx: a form draft (title,         *)
(* description, coordinates, photo), the list of places, the loading flag, *)
(* and the asynchronous handlers fetchPlaces, getLocation, takePhoto and   *)
(* handleSave.  Every await of the source is a point where the handler is  *)
(* suspended; the part of a handler between two awaits is one action.      *)
(*                                                                         *)
(* The state variables title .. loading hold the value last handed to each *)
(* setter; rendered holds the values of the last render, which are the     *)
(* ones the closures of the handlers read and the controls show.  An       *)
(* update made in a press or text event is rendered before the next event  *)
(* is handled.  How an update made after an await is rendered depends on   *)
(* the root the build renders with (root): a legacy root renders inside    *)
(* the setter call, a concurrent root in a render job that runs after the  *)
(* continuation has ended (renderJobDue), other continuations and events   *)
(* being free to run before it.  A state update that throws when React     *)
(* computes it makes the render throw; the component has no error          *)
(* boundary, so the tree is unmounted (crashed): no control is left to     *)
(* press, but the handlers suspended at an await still resume.             *)
(*                                                                         *)
(* Encoding of nullable values (number | null, string | null, the assets   *)
(* array or null): Null is the empty tuple and Some(v) the one-element     *)
(* tuple <<v>>.                                                            *)
(***************************************************************************)
EXTENDS Naturals, Sequences, FiniteSets

VARIABLES title, description, latitude, longitude, photo, places, loading,
          mounted, gets, getsIssued, posts, locPerm, locPos, camPerm, camOpen,
          getJson, postJson, crashed, pendingRender, renderJobDue, rendered,
          root, last

draft == <<title, description, latitude, longitude, photo>>
vars  == <<title, description, latitude, longitude, photo, places, loading,
           mounted, gets, getsIssued, posts, locPerm, locPos, camPerm, camOpen,
           getJson, postJson, crashed, pendingRender, renderJobDue,
           rendered, root, last>>

(* ------------------------------ bounds -------------------------------- *)
\* longest array a GET returns, and most records creations add to a list
MaxPlaces == 2
\* most invocations of getLocation and takePhoto, taken together, suspended
\* at one time
MaxPending == 1

(* --------------------------- value domains ---------------------------- *)
Null == <<>>
Some(v) == <<v>>

\* texts the user can type into the two inputs
Titles == {"", "Praia"}
Descriptions == {"", "Linda"}
\* the position reading, as <<latitude, longitude>> (0 is a legal coordinate)
Coords == {<<0, 2>>}
\* answers of the permission requests
PermissionStatuses == {"granted", "denied", "undetermined"}

\* assets a capture can return: base64 and uri are each absent, empty or set
Assets == [base64 : {Null, Some(""), Some("QUJD")},
           uri    : {Null, Some("file:///p.jpg")}]
\* results of launchCameraAsync: a cancelled capture has canceled true and
\* assets null; otherwise assets is null, [] or [asset]
CaptureResults ==
  {[canceled |-> TRUE, assets |-> Null]}
  \cup [canceled : {FALSE},
        assets   : {Null, Some(<<>>)} \cup {Some(<<a>>) : a \in Assets}]
NoResult == [canceled |-> TRUE, assets |-> Null]

\* records the remote service can return
PlaceA == [_id |-> "a", title |-> "Praia", description |-> "Linda",
           latitude |-> 0, longitude |-> 0, photo |-> Null]
PlaceB == [_id |-> "b", title |-> "Praia", description |-> "Linda",
           latitude |-> 1, longitude |-> 2,
           photo |-> Some("data:image/jpeg;base64,QUJD")]
ServerRecords == {PlaceA, PlaceB}

RECURSIVE SeqsUpTo(_, _)
SeqsUpTo(S, n) ==
  IF n = 0 THEN {<<>>}
  ELSE LET shorter == SeqsUpTo(S, n - 1)
       IN  shorter \cup {Append(s, x) : s \in shorter, x \in S}

\* A parsed JSON value, by its type: an array of Place records (items), one
\* Place object (items holds it), the object {"error": "boom"}, or null.
\* Unparsable stands for a body on which res.json() throws.
Arr(s) == [type |-> "array", items |-> s]
Obj(r) == [type |-> "place", items |-> <<r>>]
ErrorBody == [type |-> "error", items |-> <<>>]
NullBody == [type |-> "null", items |-> <<>>]
Unparsable == [type |-> "unparsable", items |-> <<>>]
NoJson == [type |-> "none", items |-> <<>>]

\* how a fetch() settles: it throws, or resolves with res.ok true or false
FetchKinds == {"reject", "ok", "notOk"}
\* what res.json() gives for a GET: nothing in the code restricts it to an
\* array
GetBodies ==
  {Unparsable, ErrorBody, NullBody}
  \cup {Arr(s) : s \in SeqsUpTo(ServerRecords, MaxPlaces)}
\* what res.json() gives for a POST
PostBodies == {Unparsable} \cup {Obj(r) : r \in ServerRecords}

\* the HTTP exchange a step was given: how the fetch settled and, once read,
\* the body
Response(kind, json) == [kind |-> kind, json |-> json]
NoResponse == Response("none", NoJson)

(* ------------------------------ alerts -------------------------------- *)
NoAlert == <<>>
AlertLoadFailed == <<"Erro", "Não foi possível carregar os registros">>
AlertLocationDenied ==
  <<"Permissão negada", "É necessário permitir o acesso à localização.">>
AlertCameraDenied ==
  <<"Permissão negada", "É necessário permitir o uso da câmera.">>
AlertValidation ==
  <<"Atenção", "Preencha título, descrição e capture a localização.">>
AlertSaveFailed == <<"Erro", "Falha ao salvar o registro.">>
AlertSaved == <<"Sucesso", "Local salvo!">>
AlertBackend == <<"Erro", "Falha na conexão com o backend.">>

\* What the step just taken was given and what it showed.
Event(op, alert, status, result, resp) ==
  [op |-> op, alert |-> alert, status |-> status, result |-> result,
   resp |-> resp]

(* ------------------------- pure parts of the code --------------------- *)
\* JavaScript truthiness of a string | null value
Truthy(s) == s # Null /\ s[1] # ""

\* variant: the description is not checked
InvalidIgnoringDescription(t, d, la, lo) == t = "" \/ la = Null \/ lo = Null

\* the condition of the early return of handleSave
Invalid(t, d, la, lo) == t = "" \/ d = "" \/ la = Null \/ lo = Null

\* the template literal of takePhoto
DataUri(b) == "data:image/jpeg;base64," \o b

\* variant: the raw URI is preferred over the base64 payload
PickPhotoUriFirst(result, prev) ==
  IF ~result.canceled /\ result.assets # Null /\ Len(result.assets[1]) > 0
  THEN LET asset == result.assets[1][1]
       IN  IF Truthy(asset.uri) THEN Some(asset.uri[1])
           ELSE IF Truthy(asset.base64) THEN Some(DataUri(asset.base64[1]))
           ELSE prev
  ELSE prev

\* variant: a capture without a usable asset resets the photo
PickPhotoResetting(result, prev) ==
  IF ~result.canceled /\ result.assets # Null /\ Len(result.assets[1]) > 0
  THEN LET asset == result.assets[1][1]
       IN  IF Truthy(asset.base64) THEN Some(DataUri(asset.base64[1]))
           ELSE IF Truthy(asset.uri) THEN Some(asset.uri[1])
           ELSE Null
  ELSE Null

\* the photo state after takePhoto has received the capture result
PickPhoto(result, prev) ==
  IF ~result.canceled /\ result.assets # Null /\ Len(result.assets[1]) > 0
  THEN LET asset == result.assets[1][1]
       IN  IF Truthy(asset.base64) THEN Some(DataUri(asset.base64[1]))
           ELSE IF Truthy(asset.uri) THEN Some(asset.uri[1])
           ELSE prev
  ELSE prev

(* ------------------------------ rendering ----------------------------- *)
\* How the root renders an update made after an await; the source does not
\* fix it.  A concurrent root batches the update and renders after the
\* continuation has ended; a legacy root renders inside the setter call, so
\* an error of the render is thrown out of the setter.
Roots == {"concurrent", "legacy"}

\* the values a render of the component closes over and shows
View(t, d, la, lo, ph, l) ==
  [title |-> t, description |-> d, latitude |-> la, longitude |-> lo,
   photo |-> ph, loading |-> l]

\* what is rendered when a continuation that called a setter after an await
\* ends, view being the values handed so far
AfterAwait(view) ==
  IF ~crashed /\ root = "legacy" THEN view ELSE rendered

\* whether a render job is due when such a continuation ends
JobAfterAwait ==
  IF ~crashed /\ root = "concurrent" THEN TRUE ELSE renderJobDue

\* the position of each handler, and what the renderer holds
handlerVars == <<mounted, gets, getsIssued, posts, locPerm, locPos, camPerm,
                 camOpen, getJson, postJson>>
renderVars == <<crashed, pendingRender, renderJobDue, rendered>>

Init ==
  /\ title = ""
  /\ description = ""
  /\ latitude = Null
  /\ longitude = Null
  /\ photo = Null
  /\ places = Arr(<<>>)
  /\ loading = FALSE
  /\ mounted = FALSE
  /\ gets = 0
  /\ getsIssued = 0
  /\ posts = <<>>
  /\ locPerm = 0
  /\ locPos = 0
  /\ camPerm = 0
  /\ camOpen = 0
  /\ getJson = <<>>
  /\ postJson = 0
  /\ crashed = FALSE
  /\ pendingRender = FALSE
  /\ renderJobDue = FALSE
  /\ rendered = View("", "", Null, Null, Null, FALSE)
  /\ root \in Roots
  /\ last = Event("init", NoAlert, "none", NoResult, NoResponse)

(* ------------------------------ startup ------------------------------- *)
\* useEffect(() => { fetchPlaces(); }, []): runs once after the first render;
\* fetchPlaces runs up to its first await, with the GET request sent.
MountEffect ==
  /\ ~mounted
  /\ mounted' = TRUE
  /\ gets' = gets + 1
  /\ getsIssued' = getsIssued + 1
  /\ last' = Event("mount", NoAlert, "none", NoResult, NoResponse)
  /\ UNCHANGED <<title, description, latitude, longitude, photo, places,
                 loading, posts, locPerm, locPos, camPerm, camOpen, getJson,
                 postJson, root>>
  /\ UNCHANGED renderVars

\* the GET settles (line 47): a fetch that throws goes to the catch block;
\* otherwise fetchPlaces calls res.json() and suspends again, whatever res.ok
FetchPlacesResponse ==
  /\ gets > 0
  /\ gets' = gets - 1
  /\ \E kind \in FetchKinds :
       IF kind = "reject"
       THEN /\ last' = Event("fetchPlaces.response", AlertLoadFailed, "none",
                             NoResult, Response(kind, NoJson))
            /\ UNCHANGED getJson
       ELSE /\ last' = Event("fetchPlaces.response", NoAlert, "none",
                             NoResult, Response(kind, NoJson))
            /\ getJson' = Append(getJson, kind)
  /\ UNCHANGED <<title, description, latitude, longitude, photo, places,
                 loading, mounted, getsIssued, posts, locPerm, locPos, camPerm,
                 camOpen, postJson, root>>
  /\ UNCHANGED renderVars

\* the list after res.json() has settled: a body that does not parse goes
\* to the catch block, any parsed value is stored by setPlaces(data)
PlacesAfterFetch(body, prev) ==
  IF body = Unparsable THEN prev ELSE body

\* the alert of the catch block of fetchPlaces
AlertAfterFetch(body) ==
  IF body = Unparsable THEN AlertLoadFailed ELSE NoAlert

\* the body of the GET is read (lines 48-53)
FetchPlacesBody ==
  /\ getJson # <<>>
  /\ getJson' = Tail(getJson)
  /\ \E body \in GetBodies :
       /\ places' = PlacesAfterFetch(body, places)
       /\ IF body = Unparsable
          THEN UNCHANGED <<renderJobDue, rendered>>
          ELSE /\ rendered' = AfterAwait(View(title, description, latitude,
                                              longitude, photo, loading))
               /\ renderJobDue' = JobAfterAwait
       /\ last' = Event("fetchPlaces.body", AlertAfterFetch(body), "none",
                        NoResult, Response(Head(getJson), body))
  /\ UNCHANGED <<title, description, latitude, longitude, photo, loading,
                 mounted, gets, getsIssued, posts, locPerm, locPos, camPerm,
                 camOpen, postJson, crashed, pendingRender, root>>

(* ----------------------------- text inputs ---------------------------- *)
SetTitle ==
  /\ ~crashed
  /\ mounted
  /\ \E t \in Titles :
       /\ title' = t
       /\ rendered' = [rendered EXCEPT !.title = t]
  /\ last' = Event("setTitle", NoAlert, "none", NoResult, NoResponse)
  /\ UNCHANGED <<description, latitude, longitude, photo, places, loading,
                 crashed, pendingRender, renderJobDue, root>>
  /\ UNCHANGED handlerVars

SetDescription ==
  /\ ~crashed
  /\ mounted
  /\ \E d \in Descriptions :
       /\ description' = d
       /\ rendered' = [rendered EXCEPT !.description = d]
  /\ last' = Event("setDescription", NoAlert, "none", NoResult, NoResponse)
  /\ UNCHANGED <<title, latitude, longitude, photo, places, loading,
                 crashed, pendingRender, renderJobDue, root>>
  /\ UNCHANGED handlerVars

(* ----------------------------- getLocation ---------------------------- *)
\* the test of a permission answer, used by getLocation and takePhoto
Granted(status) == status = "granted"

\* tap on the location control: getLocation runs up to the permission await
GetLocation ==
  /\ ~crashed
  /\ mounted
  /\ locPerm + locPos + camPerm + camOpen < MaxPending
  /\ locPerm' = locPerm + 1
  /\ last' = Event("getLocation", NoAlert, "none", NoResult, NoResponse)
  /\ UNCHANGED <<title, description, latitude, longitude, photo, places,
                 loading, mounted, gets, getsIssued, posts, locPos, camPerm,
                 camOpen, getJson, postJson, root>>
  /\ UNCHANGED renderVars

\* the permission answer arrives: alert and return, or start the position
\* query and suspend again
GetLocationPermission ==
  /\ locPerm > 0
  /\ \E status \in PermissionStatuses :
       /\ locPerm' = locPerm - 1
       /\ locPos' = IF Granted(status) THEN locPos + 1 ELSE locPos
       /\ last' = Event("getLocation.permission",
                        IF Granted(status) THEN NoAlert
                                           ELSE AlertLocationDenied,
                        status, NoResult, NoResponse)
  /\ UNCHANGED <<title, description, latitude, longitude, photo, places,
                 loading, mounted, gets, getsIssued, posts, camPerm, camOpen,
                 getJson, postJson, root>>
  /\ UNCHANGED renderVars

\* the position reading arrives and is stored
GetLocationPosition ==
  /\ locPos > 0
  /\ \E c \in Coords :
       /\ latitude' = Some(c[1])
       /\ longitude' = Some(c[2])
       /\ rendered' = AfterAwait(View(title, description, Some(c[1]),
                                      Some(c[2]), photo, loading))
  /\ renderJobDue' = JobAfterAwait
  /\ locPos' = locPos - 1
  /\ last' = Event("getLocation.position", NoAlert, "none", NoResult,
                   NoResponse)
  /\ UNCHANGED <<title, description, photo, places, loading, mounted, gets,
                 getsIssued, posts, locPerm, camPerm, camOpen, getJson,
                 postJson, crashed, pendingRender, root>>

\* the position query throws: getLocation has no catch, nothing is stored
GetLocationPositionFails ==
  /\ locPos > 0
  /\ locPos' = locPos - 1
  /\ last' = Event("getLocation.positionFailed", NoAlert, "none", NoResult,
                   NoResponse)
  /\ UNCHANGED <<title, description, latitude, longitude, photo, places,
                 loading, mounted, gets, getsIssued, posts, locPerm, camPerm,
                 camOpen, getJson, postJson, root>>
  /\ UNCHANGED renderVars

(* ------------------------------ takePhoto ----------------------------- *)
\* tap on the camera control: takePhoto runs up to the permission await
TakePhoto ==
  /\ ~crashed
  /\ mounted
  /\ locPerm + locPos + camPerm + camOpen < MaxPending
  /\ camPerm' = camPerm + 1
  /\ last' = Event("takePhoto", NoAlert, "none", NoResult, NoResponse)
  /\ UNCHANGED <<title, description, latitude, longitude, photo, places,
                 loading, mounted, gets, getsIssued, posts, locPerm, locPos,
                 camOpen, getJson, postJson, root>>
  /\ UNCHANGED renderVars

TakePhotoPermission ==
  /\ camPerm > 0
  /\ \E status \in PermissionStatuses :
       /\ camPerm' = camPerm - 1
       /\ camOpen' = IF Granted(status) THEN camOpen + 1 ELSE camOpen
       /\ last' = Event("takePhoto.permission",
                        IF Granted(status) THEN NoAlert ELSE AlertCameraDenied,
                        status, NoResult, NoResponse)
  /\ UNCHANGED <<title, description, latitude, longitude, photo, places,
                 loading, mounted, gets, getsIssued, posts, locPerm, locPos,
                 getJson, postJson, root>>
  /\ UNCHANGED renderVars

\* takePhoto calls setPhoto: the capture is not cancelled and its first asset
\* has a payload or a URI (lines 78-84)
CallsSetPhoto(result) ==
  /\ ~result.canceled /\ result.assets # Null /\ Len(result.assets[1]) > 0
  /\ Truthy(result.assets[1][1].base64) \/ Truthy(result.assets[1][1].uri)

\* the camera returns its result
TakePhotoResult ==
  /\ camOpen > 0
  /\ \E result \in CaptureResults :
       /\ photo' = PickPhoto(result, photo)
       /\ IF CallsSetPhoto(result)
          THEN /\ rendered' = AfterAwait(View(title, description, latitude,
                                              longitude,
                                              PickPhoto(result, photo),
                                              loading))
               /\ renderJobDue' = JobAfterAwait
          ELSE UNCHANGED <<renderJobDue, rendered>>
       /\ last' = Event("takePhoto.result", NoAlert, "none", result,
                        NoResponse)
  /\ camOpen' = camOpen - 1
  /\ UNCHANGED <<title, description, latitude, longitude, places, loading,
                 mounted, gets, getsIssued, posts, locPerm, locPos, camPerm,
                 getJson, postJson, crashed, pendingRender, root>>

\* the remove control of the preview, rendered only while photo is truthy
\* in the last render
RemovePhoto ==
  /\ ~crashed
  /\ mounted
  /\ Truthy(rendered.photo)
  /\ photo' = Null
  /\ rendered' = [rendered EXCEPT !.photo = Null]
  /\ last' = Event("removePhoto", NoAlert, "none", NoResult, NoResponse)
  /\ UNCHANGED <<title, description, latitude, longitude, places, loading,
                 crashed, pendingRender, renderJobDue, root>>
  /\ UNCHANGED handlerVars

(* ------------------------------ handleSave ---------------------------- *)
\* variant: the submit control is never disabled
SaveAlwaysEnabled(l) == TRUE

\* the submit control is pressable: disabled={loading}, with the value of
\* loading of the last render
SaveEnabled(l) == ~l

\* the JSON body of the POST
Body(t, d, la, lo, ph) ==
  [title |-> t, description |-> d, latitude |-> la[1], longitude |-> lo[1],
   photo |-> ph]

\* tap on the submit control: handleSave validates the values of the last
\* render and either alerts and returns or sets the loading flag, sends the
\* POST and suspends
HandleSave ==
  /\ ~crashed
  /\ mounted
  /\ SaveEnabled(rendered.loading)
  /\ IF Invalid(rendered.title, rendered.description, rendered.latitude,
                rendered.longitude)
     THEN /\ last' = Event("handleSave", AlertValidation, "none", NoResult,
                           NoResponse)
          /\ UNCHANGED <<loading, rendered, posts>>
     ELSE /\ Len(places.items) + Len(posts) + postJson < MaxPlaces
          /\ loading' = TRUE
          /\ rendered' = [rendered EXCEPT !.loading = TRUE]
          /\ posts' = Append(posts, Body(rendered.title, rendered.description,
                                         rendered.latitude, rendered.longitude,
                                         rendered.photo))
          /\ last' = Event("handleSave", NoAlert, "none", NoResult,
                           NoResponse)
  /\ UNCHANGED <<title, description, latitude, longitude, photo, places,
                 mounted, gets, getsIssued, locPerm, locPos, camPerm, camOpen,
                 getJson, postJson, crashed, pendingRender, renderJobDue,
                 root>>

\* variant: the status of the response is not tested
ReadsBodyWhateverStatus(kind) == kind # "reject"

\* handleSave goes on to read the body: the fetch resolved and res.ok holds
ReadsBody(kind) == kind = "ok"

\* the finally block, reached on the paths "exception", "notOk", "created"
LoadingAfterSave(path, l) == FALSE

\* the POST settles (lines 96-105): a fetch that throws goes to the catch
\* block, a non-success status alerts and returns, both through the finally
\* block; otherwise handleSave calls res.json() and suspends again
HandleSaveResponse ==
  /\ posts # <<>>
  /\ posts' = Tail(posts)
  /\ \E kind \in FetchKinds :
       IF ReadsBody(kind)
       THEN /\ postJson' = postJson + 1
            /\ last' = Event("handleSave.response", NoAlert, "none", NoResult,
                             Response(kind, NoJson))
            /\ UNCHANGED <<loading, renderJobDue, rendered>>
       ELSE /\ loading' = LoadingAfterSave(IF kind = "reject" THEN "exception"
                                                              ELSE "notOk",
                                           loading)
            /\ rendered' = AfterAwait(View(title, description, latitude,
                                           longitude, photo, loading'))
            /\ renderJobDue' = JobAfterAwait
            /\ last' = Event("handleSave.response",
                             IF kind = "reject" THEN AlertBackend
                                                ELSE AlertSaveFailed,
                             "none", NoResult, Response(kind, NoJson))
            /\ UNCHANGED postJson
  /\ UNCHANGED <<title, description, latitude, longitude, photo, places,
                 mounted, gets, getsIssued, locPerm, locPos, camPerm, camOpen,
                 getJson, crashed, pendingRender, root>>

\* the spread ...prev needs an iterable: an array is, an object or null
\* makes the updater throw a TypeError
Iterable(v) == v.type = "array"

\* setPlaces((prev) => [created, ...prev]); when the updater throws, the
\* list is not replaced
Prepend(created, prev) ==
  IF Iterable(prev) THEN Arr(<<created>> \o prev.items) ELSE prev

\* the updater of setPlaces throws when React computes the next state
UpdaterThrows(prev) == ~Iterable(prev)

\* setPlaces (line 108) throws into handleSave: the tree is mounted and
\* rendered inside the call
SetPlacesThrows(r, prev) == ~crashed /\ r = "legacy" /\ UpdaterThrows(prev)

\* the updater is left to a render job, which will throw
RenderWillThrow(r, prev) == ~crashed /\ r = "concurrent" /\ UpdaterThrows(prev)

\* the body of the POST is read (lines 107-123): a body that does not parse
\* goes to the catch block, and so does a setPlaces that throws, with lines
\* 111-117 skipped and the tree unmounted inside the call; otherwise the
\* record is prepended, the five setters clear the draft and the success
\* alert is shown; the finally block clears the flag on every path.  When
\* the updater throws on a concurrent root the handler ends as on success,
\* the tree stays mounted as last rendered and the render that is due fails.
HandleSaveBody ==
  /\ postJson > 0
  /\ postJson' = postJson - 1
  /\ \E body \in PostBodies :
       IF body = Unparsable
       THEN /\ loading' = LoadingAfterSave("exception", loading)
            /\ rendered' = AfterAwait(View(title, description, latitude,
                                           longitude, photo, loading'))
            /\ renderJobDue' = JobAfterAwait
            /\ last' = Event("handleSave.body", AlertBackend, "none",
                             NoResult, Response("ok", body))
            /\ UNCHANGED <<title, description, latitude, longitude, photo,
                           places, crashed, pendingRender>>
       ELSE /\ places' = Prepend(body.items[1], places)
            /\ IF SetPlacesThrows(root, places)
               THEN /\ crashed' = TRUE
                    /\ loading' = LoadingAfterSave("exception", loading)
                    /\ last' = Event("handleSave.body", AlertBackend, "none",
                                     NoResult, Response("ok", body))
                    /\ UNCHANGED <<title, description, latitude, longitude,
                                   photo, pendingRender, renderJobDue,
                                   rendered>>
               ELSE /\ title' = ""
                    /\ description' = ""
                    /\ latitude' = Null
                    /\ longitude' = Null
                    /\ photo' = Null
                    /\ loading' = LoadingAfterSave("created", loading)
                    /\ pendingRender' =
                         (pendingRender \/ RenderWillThrow(root, places))
                    /\ rendered' = AfterAwait(View("", "", Null, Null, Null,
                                                   loading'))
                    /\ renderJobDue' = JobAfterAwait
                    /\ last' = Event("handleSave.body", AlertSaved, "none",
                                     NoResult, Response("ok", body))
                    /\ UNCHANGED crashed
  /\ UNCHANGED <<mounted, gets, getsIssued, posts, locPerm, locPos, camPerm,
                 camOpen, getJson, root>>

(* ------------------------------ render jobs --------------------------- *)
\* the render job of a concurrent root: the component is rendered with the
\* values handed to the setters
RenderJob ==
  /\ ~crashed
  /\ renderJobDue
  /\ ~pendingRender
  /\ renderJobDue' = FALSE
  /\ rendered' = View(title, description, latitude, longitude, photo, loading)
  /\ last' = Event("render", NoAlert, "none", NoResult, NoResponse)
  /\ UNCHANGED <<title, description, latitude, longitude, photo, places,
                 loading, crashed, pendingRender, root>>
  /\ UNCHANGED handlerVars

\* the render job runs the updater of line 108, which throws; there is no
\* error boundary and the tree is unmounted
RenderThrows ==
  /\ ~crashed
  /\ pendingRender
  /\ crashed' = TRUE
  /\ pendingRender' = FALSE
  /\ renderJobDue' = FALSE
  /\ last' = Event("render", NoAlert, "none", NoResult, NoResponse)
  /\ UNCHANGED <<title, description, latitude, longitude, photo, places,
                 loading, rendered, root>>
  /\ UNCHANGED handlerVars

Next ==
  \/ MountEffect
  \/ FetchPlacesResponse
  \/ FetchPlacesBody
  \/ SetTitle
  \/ SetDescription
  \/ GetLocation
  \/ GetLocationPermission
  \/ GetLocationPosition
  \/ GetLocationPositionFails
  \/ TakePhoto
  \/ TakePhotoPermission
  \/ TakePhotoResult
  \/ RemovePhoto
  \/ HandleSave
  \/ HandleSaveResponse
  \/ HandleSaveBody
  \/ RenderJob
  \/ RenderThrows

Spec == Init /\ [][Next]_vars

(* ------------------------------ properties --------------------------- *)
TypeOK ==
  /\ title \in Titles
  /\ description \in Descriptions
  /\ latitude \in {Null} \cup {Some(c[1]) : c \in Coords}
  /\ longitude \in {Null} \cup {Some(c[2]) : c \in Coords}
  /\ places.type \in {"array", "error", "null"}
  /\ Len(places.items) <= MaxPlaces + 1
  /\ loading \in BOOLEAN
  /\ mounted \in BOOLEAN
  /\ crashed \in BOOLEAN
  /\ pendingRender \in BOOLEAN
  /\ renderJobDue \in BOOLEAN
  /\ root \in Roots
  /\ pendingRender => (renderJobDue /\ ~crashed /\ root = "concurrent")
  /\ (root = "legacy") => ~renderJobDue
  /\ (~renderJobDue /\ ~crashed)
       => rendered = View(title, description, latitude, longitude, photo,
                          loading)
  /\ (pendingRender \/ crashed) => (posts = <<>> /\ postJson = 0)
  /\ gets + Len(getJson) \in 0..1
  /\ locPerm + locPos + camPerm + camOpen <= MaxPending

\* C1: a call of handleSave with an empty title, an empty description, a null
\* latitude or a null longitude, in the values handed to the setters or in
\* the values of the render the handler reads, issues no POST, shows the
\* validation alert and leaves the list, the draft, what is rendered and the
\* loading flag alone; with title and description filled and a longitude set
\* in that render a latitude of 0 is accepted and the POST is sent.
C1_ValidationBlocksSave ==
  [][ last'.op = "handleSave" =>
        /\ (title = "" \/ description = "" \/ latitude = Null
              \/ longitude = Null
              \/ rendered.title = "" \/ rendered.description = ""
              \/ rendered.latitude = Null \/ rendered.longitude = Null)
             => /\ posts' = posts
                /\ last'.alert = AlertValidation
                /\ places' = places
                /\ draft' = draft
                /\ rendered' = rendered
                /\ loading' = loading
        /\ (rendered.title # "" /\ rendered.description # ""
              /\ rendered.latitude = Some(0) /\ rendered.longitude # Null)
             => /\ Len(posts') = Len(posts) + 1
                /\ last'.alert = NoAlert ]_vars

\* a submission was refused for its missing coordinates only, with a photo
\* in the draft
C1_Witness ==
  /\ last.op = "handleSave"
  /\ last.alert = AlertValidation
  /\ title # "" /\ description # "" /\ latitude = Null /\ photo # Null
  /\ posts = <<>>

\* C2: when the POST is answered with a success status and a parsable record,
\* the record is put in front of the list (one element more, the first is the
\* response, the earlier ones follow in their order) and title, description,
\* latitude, longitude and photo are cleared.
C2_CreatedIsPrepended ==
  [][ (last'.op = "handleSave.body" /\ last'.resp.kind = "ok"
         /\ last'.resp.json.type = "place")
        => /\ places'.type = "array"
           /\ Len(places'.items) = Len(places.items) + 1
           /\ places'.items[1] = last'.resp.json.items[1]
           /\ \A i \in 1..Len(places.items) :
                places'.items[i + 1] = places.items[i]
           /\ title' = "" /\ description' = ""
           /\ latitude' = Null /\ longitude' = Null /\ photo' = Null ]_vars

\* C3: when the POST is answered with a non-success status or the request
\* throws, the list and the draft stay as they are, the failure alert of that
\* path is shown and the loading flag is false afterwards.
C3_FailedSaveKeepsState ==
  [][ (last'.op = "handleSave.response"
         /\ last'.resp.kind \in {"notOk", "reject"})
        => /\ places' = places
           /\ draft' = draft
           /\ last'.alert = IF last'.resp.kind = "notOk" THEN AlertSaveFailed
                                                         ELSE AlertBackend
           /\ loading' = FALSE
           /\ postJson' = 0 ]_vars

\* a creation failed with a filled draft and a list that is not empty
C3_Witness ==
  /\ last.op = "handleSave.response"
  /\ last.resp.kind = "notOk"
  /\ title # "" /\ description # "" /\ latitude # Null /\ photo # Null
  /\ places.items # <<>>
  /\ ~loading

\* C4: when the GET of fetchPlaces throws or is answered with a non-success
\* status, the list is unchanged, the load-failure alert is shown and no
\* further GET is issued.
C4_FetchFailureKeepsList ==
  [][ ((last'.op = "fetchPlaces.response" /\ last'.resp.kind = "reject")
        \/ (last'.op = "fetchPlaces.body" /\ last'.resp.kind = "notOk"))
        => /\ places' = places
           /\ last'.alert = AlertLoadFailed
           /\ getsIssued' = getsIssued ]_vars

\* C5: every end of handleSave after a sent POST (created, non-success status,
\* exception, unparsable body) hands false to setLoading, and the loading flag
\* of the mounted component is never left true with no create request in
\* flight: it is false as rendered, or the render job that makes it false is
\* due and can run.
C5_LoadingCleared ==
  /\ [][ ((last'.op = "handleSave.response" /\ last'.resp.kind # "ok")
           \/ last'.op = "handleSave.body")
           => loading' = FALSE ]_vars
  /\ []((~crashed /\ posts = <<>> /\ postJson = 0)
          => /\ ~loading
             /\ rendered.loading => (renderJobDue /\ ~pendingRender))

\* C6: a record in the list is never removed, and the first record stays
\* first until a creation puts another in front of it.
C6_ListOnlyGrows ==
  [][ places.items # <<>> =>
        /\ \A i \in 1..Len(places.items) :
             \E j \in 1..Len(places'.items) :
               places'.items[j] = places.items[i]
        /\ (last'.op # "handleSave.body"
              => places'.items[1] = places.items[1]) ]_vars

\* C7: a capture that is not cancelled and has an asset stores the data URI
\* of the base64 payload when there is one, whether or not there is a URI,
\* and the URI when there is no payload.
C7_Base64Preferred ==
  [][ (last'.op = "takePhoto.result" /\ ~last'.result.canceled
         /\ last'.result.assets # Null /\ last'.result.assets[1] # <<>>)
        => LET asset == last'.result.assets[1][1]
               hasBase64 == asset.base64 # Null /\ asset.base64[1] # ""
               hasUri == asset.uri # Null /\ asset.uri[1] # ""
           IN  /\ hasBase64 =>
                    photo' = Some("data:image/jpeg;base64," \o asset.base64[1])
               /\ (~hasBase64 /\ hasUri) => photo' = Some(asset.uri[1]) ]_vars

\* a capture with both a payload and a URI was stored as the data URI
C7_Witness ==
  /\ last.op = "takePhoto.result"
  /\ ~last.result.canceled
  /\ last.result.assets
       = Some(<<[base64 |-> Some("QUJD"), uri |-> Some("file:///p.jpg")]>>)
  /\ photo = Some("data:image/jpeg;base64,QUJD")

\* C8: a cancelled capture leaves the photo and the other draft fields as
\* they were and shows no alert.
C8_CancelKeepsPhoto ==
  [][ (last'.op = "takePhoto.result" /\ last'.result.canceled)
        => /\ photo' = photo
           /\ draft' = draft
           /\ last'.alert = NoAlert ]_vars

\* a capture was cancelled while an earlier photo was in the draft
C8_Witness ==
  /\ last.op = "takePhoto.result"
  /\ last.result.canceled
  /\ photo = Some("file:///p.jpg")

\* C9: when the permission of getLocation or takePhoto is not granted, the
\* alert of that handler is shown, no position query (resp. camera launch) is
\* started, latitude, longitude and photo keep their values, and the control
\* can be tapped again.
C9_DenialAborts ==
  /\ [][ /\ (last'.op = "getLocation.permission" /\ last'.status # "granted")
              => /\ last'.alert = AlertLocationDenied
                 /\ locPos' = locPos
                 /\ latitude' = latitude /\ longitude' = longitude
                 /\ photo' = photo
         /\ (last'.op = "takePhoto.permission" /\ last'.status # "granted")
              => /\ last'.alert = AlertCameraDenied
                 /\ camOpen' = camOpen
                 /\ latitude' = latitude /\ longitude' = longitude
                 /\ photo' = photo ]_vars
  /\ []((last.op = "getLocation.permission" /\ last.status # "granted")
          => ENABLED GetLocation)
  /\ []((last.op = "takePhoto.permission" /\ last.status # "granted")
          => ENABLED TakePhoto)

\* C10: at most one create request is in progress (its POST in flight or its
\* body being read); while one is, the loading flag is true and the submit
\* control does nothing; a POST is sent only from a state with no create
\* request in progress and the loading flag false.
C10_SingleSubmission ==
  /\ [](/\ Len(posts) + postJson <= 1
        /\ (posts # <<>> \/ postJson > 0) => (loading /\ ~ENABLED HandleSave))
  /\ [][ Len(posts') > Len(posts)
           => (posts = <<>> /\ postJson = 0 /\ ~loading) ]_vars

\* a second POST is in flight after an earlier creation was added to the list
\* (the GET of the startup is still unanswered, so the record came from a
\* creation)
C10_Witness ==
  /\ gets = 1
  /\ Len(places.items) = 1
  /\ Len(posts) = 1
  /\ loading
====
